---- MODULE Spec2Model ----
(***************************************************************************)
(* Model of src/src/components/flappy-bird.tsx (the FlappyBird component). *)
(*                                                                         *)
(* State: the component's useState cells (gameState, score, highScore,     *)
(* bird, pipes), the frameCountRef counter and the window dimensions.      *)
(* Events: jump (a touch on the game surface), resetGame (the "Play Again" *)
(* button) and gameLoop (one animation frame).  Each event runs to         *)
(* completion, state updaters included, before the next one is taken: the  *)
(* effect at lines 172-186 re-registers the frame callback after every     *)
(* render, so a frame always runs the closure of the latest render.  Every *)
(* state updater is run once per call (the production build; the double    *)
(* invocation of a development StrictMode is not modelled).  gameLoop      *)
(* reads pipes, score and highScore from its render and bird, pipes and    *)
(* score again as the updaters' prev arguments; with events atomic the two *)
(* are the same values, except that the score passed to setHighScore is    *)
(* the one before the scoring of the same frame.                           *)
(*                                                                         *)
(* Lengths are held in tenths of a pixel (Unit), so that GRAVITY = 0.8 and *)
(* screenHeight / 2 are integers; arithmetic is exact (the rounding of     *)
(* IEEE doubles is not modelled).                                          *)
(***************************************************************************)
EXTENDS Integers, Sequences, FiniteSets

VARIABLES gameState, score, highScore, bird, pipes, frameCount,
          screenWidth, screenHeight

vars == <<gameState, score, highScore, bird, pipes, frameCount,
          screenWidth, screenHeight>>

\* ---------------------------------------------------------------- constants
Unit == 10

GRAVITY == 8
JUMP_FORCE == -120
PIPE_WIDTH == 60 * Unit
PIPE_GAP == 200 * Unit
BIRD_SIZE == 30 * Unit
GAME_SPEED == 3 * Unit
BIRD_X == 100 * Unit
GROUND_HEIGHT == 100 * Unit
SPAWN_INTERVAL == 100
MIN_HEIGHT == 50 * Unit

\* ------------------------------------------------------------------- bounds
\* frames delivered to one game before the driver is stopped
MaxFrames == 202
\* Math.random() is drawn from {0/RandDen, ..., (RandDen-1)/RandDen}
RandDen == 2
\* window sizes (in pixels) the component is mounted with
Widths == {131}
Heights == {400}

\* ------------------------------------------------------------------ helpers
InitialBird(h) == [x |-> BIRD_X, y |-> h \div 2, velocityY |-> 0]

\* generatePipe, lines 81-92; r / RandDen stands for Math.random()
generatePipe(r, w, h) ==
    LET minHeight == MIN_HEIGHT
        maxHeight == h - PIPE_GAP - minHeight - GROUND_HEIGHT
        topHeight == (r * (maxHeight - minHeight)) \div RandDen + minHeight
    IN  [x |-> w, topHeight |-> topHeight, bottomY |-> topHeight + PIPE_GAP,
         scored |-> FALSE]

\* the loop of lines 106-118, scanning the pipes from index i on
RECURSIVE PipeScan(_, _, _)
PipeScan(b, ps, i) ==
    IF i > Len(ps) THEN FALSE
    ELSE IF /\ b.x + BIRD_SIZE > ps[i].x
            /\ b.x < ps[i].x + PIPE_WIDTH
            /\ (b.y < ps[i].topHeight \/ b.y + BIRD_SIZE > ps[i].bottomY)
         THEN TRUE
         ELSE PipeScan(b, ps, i + 1)

\* checkCollision with the ground test made inclusive
checkCollision_GroundInclusive(b, ps, h) ==
    IF b.y >= h - GROUND_HEIGHT - BIRD_SIZE THEN TRUE
    ELSE IF b.y < 0 THEN TRUE
    ELSE PipeScan(b, ps, 1)

\* checkCollision, lines 94-121
checkCollision(b, ps, h) ==
    IF b.y > h - GROUND_HEIGHT - BIRD_SIZE THEN TRUE
    ELSE IF b.y < 0 THEN TRUE
    ELSE PipeScan(b, ps, 1)

\* NewBird with the position advanced by the velocity after gravity
NewBird_SemiImplicit(prev) ==
    [prev EXCEPT !.y = prev.y + prev.velocityY + GRAVITY,
                 !.velocityY = prev.velocityY + GRAVITY]

\* newBird, lines 129-133
NewBird(prev) ==
    [prev EXCEPT !.y = prev.y + prev.velocityY,
                 !.velocityY = prev.velocityY + GRAVITY]

\* BirdUpdater committing the new bird on the colliding frame too
BirdUpdater_Commit(prev, ps, h) == NewBird(prev)

\* the value the setBird updater returns, lines 128-145
BirdUpdater(prev, ps, h) ==
    IF checkCollision(NewBird(prev), ps, h) THEN prev ELSE NewBird(prev)

\* HighScoreUpdate without the comparison of line 138
HighScoreUpdate_Always(sc, hs) == sc

\* lines 138-140
HighScoreUpdate(sc, hs) == IF sc > hs THEN sc ELSE hs

\* line 148
MovePipes(ps) == [i \in 1..Len(ps) |-> [ps[i] EXCEPT !.x = ps[i].x - GAME_SPEED]]

\* KeepPipe without the test: no pipe is ever removed
KeepPipe_All(p) == TRUE

\* KeepPipe keeping a pipe at exactly -PIPE_WIDTH
KeepPipe_Inclusive(p) == p.x >= -PIPE_WIDTH

\* line 151
KeepPipe(p) == p.x > -PIPE_WIDTH

OffScreenFilter(ps) == SelectSeq(ps, KeepPipe)

\* SpawnPipes putting the new pipe in front (unshift for push)
SpawnPipes_Front(ps, fc, r, w, h) ==
    IF fc % SPAWN_INTERVAL = 0 THEN <<generatePipe(r, w, h)>> \o ps ELSE ps

\* SpawnPipes one frame late
SpawnPipes_OffByOne(ps, fc, r, w, h) ==
    IF fc % SPAWN_INTERVAL = 1 THEN Append(ps, generatePipe(r, w, h)) ELSE ps

\* lines 154-156
SpawnPipes(ps, fc, r, w, h) ==
    IF fc % SPAWN_INTERVAL = 0 THEN Append(ps, generatePipe(r, w, h)) ELSE ps

\* Scores comparing the leading edge of the pipe
Scores_LeadingEdge(p, bx) == ~p.scored /\ p.x < bx

\* the test of line 160
Scores(p, bx) == ~p.scored /\ p.x + PIPE_WIDTH < bx

\* MarkScored without the assignment of line 161
MarkScored_NoFlag(ps, bx) == ps

\* lines 159-164: the flags after the forEach, and the number of setScore calls
MarkScored(ps, bx) ==
    [i \in 1..Len(ps) |-> IF Scores(ps[i], bx) THEN [ps[i] EXCEPT !.scored = TRUE]
                          ELSE ps[i]]

ScoreGain(ps, bx) == Cardinality({i \in 1..Len(ps) : Scores(ps[i], bx)})

\* ------------------------------------------------------------------ actions
Init ==
    /\ screenWidth \in {w * Unit : w \in Widths}
    /\ screenHeight \in {h * Unit : h \in Heights}
    /\ gameState = "waiting"
    /\ score = 0
    /\ highScore = 0
    /\ bird = InitialBird(screenHeight)
    /\ pipes = <<>>
    /\ frameCount = 0

\* resetGame starting the next game at once
resetGame_ToPlaying ==
    /\ gameState' = "playing"
    /\ score' = 0
    /\ bird' = InitialBird(screenHeight)
    /\ pipes' = <<>>
    /\ frameCount' = 0
    /\ UNCHANGED <<highScore, screenWidth, screenHeight>>

\* resetGame without the assignment of line 78
resetGame_KeepFrames ==
    /\ gameState' = "waiting"
    /\ score' = 0
    /\ bird' = InitialBird(screenHeight)
    /\ pipes' = <<>>
    /\ UNCHANGED <<frameCount, highScore, screenWidth, screenHeight>>

\* resetGame, lines 69-79
resetGame ==
    /\ gameState' = "waiting"
    /\ score' = 0
    /\ bird' = InitialBird(screenHeight)
    /\ pipes' = <<>>
    /\ frameCount' = 0
    /\ UNCHANGED <<highScore, screenWidth, screenHeight>>

\* jump lifting the bird at once while playing
jump_MovesBird ==
    \/ /\ gameState = "waiting"
       /\ gameState' = "playing"
       /\ bird' = [bird EXCEPT !.velocityY = JUMP_FORCE]
       /\ UNCHANGED <<score, highScore, pipes, frameCount, screenWidth, screenHeight>>
    \/ /\ gameState = "playing"
       /\ bird' = [bird EXCEPT !.velocityY = JUMP_FORCE, !.y = bird.y + JUMP_FORCE]
       /\ UNCHANGED <<gameState, score, highScore, pipes, frameCount,
                      screenWidth, screenHeight>>
    \/ /\ gameState = "gameOver"
       /\ resetGame

\* jump adding the impulse to the velocity while playing
jump_Additive ==
    \/ /\ gameState = "waiting"
       /\ gameState' = "playing"
       /\ bird' = [bird EXCEPT !.velocityY = JUMP_FORCE]
       /\ UNCHANGED <<score, highScore, pipes, frameCount, screenWidth, screenHeight>>
    \/ /\ gameState = "playing"
       /\ bird' = [bird EXCEPT !.velocityY = bird.velocityY + JUMP_FORCE]
       /\ UNCHANGED <<gameState, score, highScore, pipes, frameCount,
                      screenWidth, screenHeight>>
    \/ /\ gameState = "gameOver"
       /\ resetGame

\* jump, lines 58-67
jump ==
    \/ /\ gameState = "waiting"
       /\ gameState' = "playing"
       /\ bird' = [bird EXCEPT !.velocityY = JUMP_FORCE]
       /\ UNCHANGED <<score, highScore, pipes, frameCount, screenWidth, screenHeight>>
    \/ /\ gameState = "playing"
       /\ bird' = [bird EXCEPT !.velocityY = JUMP_FORCE]
       /\ UNCHANGED <<gameState, score, highScore, pipes, frameCount,
                      screenWidth, screenHeight>>
    \/ /\ gameState = "gameOver"
       /\ resetGame

\* the "Play Again" button, rendered only on the game-over overlay
PlayAgain ==
    /\ gameState = "gameOver"
    /\ resetGame

\* gameLoop without the setGameState of line 137
gameLoop_NeverOver ==
    \/ /\ gameState # "playing"
       /\ UNCHANGED vars
    \/ /\ gameState = "playing"
       /\ frameCount < MaxFrames
       /\ frameCount' = frameCount + 1
       /\ bird' = BirdUpdater(bird, pipes, screenHeight)
       /\ highScore' = IF checkCollision(NewBird(bird), pipes, screenHeight)
                       THEN HighScoreUpdate(score, highScore) ELSE highScore
       /\ \E r \in 0..(RandDen - 1) :
            LET newPipes == SpawnPipes(OffScreenFilter(MovePipes(pipes)),
                                       frameCount', r, screenWidth, screenHeight)
            IN  /\ pipes' = MarkScored(newPipes, bird.x)
                /\ score' = score + ScoreGain(newPipes, bird.x)
       /\ UNCHANGED <<gameState, screenWidth, screenHeight>>

\* gameLoop without the early return of line 124
gameLoop_Ungated ==
    /\ frameCount < MaxFrames
    /\ frameCount' = frameCount + 1
    /\ bird' = BirdUpdater(bird, pipes, screenHeight)
    /\ IF checkCollision(NewBird(bird), pipes, screenHeight)
       THEN /\ gameState' = "gameOver"
            /\ highScore' = HighScoreUpdate(score, highScore)
       ELSE UNCHANGED <<gameState, highScore>>
    /\ \E r \in 0..(RandDen - 1) :
         LET newPipes == SpawnPipes(OffScreenFilter(MovePipes(pipes)),
                                    frameCount', r, screenWidth, screenHeight)
         IN  /\ pipes' = MarkScored(newPipes, bird.x)
             /\ score' = score + ScoreGain(newPipes, bird.x)
    /\ UNCHANGED <<screenWidth, screenHeight>>

\* gameLoop, lines 123-170
gameLoop ==
    \/ /\ gameState # "playing"
       /\ UNCHANGED vars
    \/ /\ gameState = "playing"
       /\ frameCount < MaxFrames
       /\ frameCount' = frameCount + 1
       /\ bird' = BirdUpdater(bird, pipes, screenHeight)
       /\ IF checkCollision(NewBird(bird), pipes, screenHeight)
          THEN /\ gameState' = "gameOver"
               /\ highScore' = HighScoreUpdate(score, highScore)
          ELSE UNCHANGED <<gameState, highScore>>
       /\ \E r \in 0..(RandDen - 1) :
            LET newPipes == SpawnPipes(OffScreenFilter(MovePipes(pipes)),
                                       frameCount', r, screenWidth, screenHeight)
            IN  /\ pipes' = MarkScored(newPipes, bird.x)
                /\ score' = score + ScoreGain(newPipes, bird.x)
       /\ UNCHANGED <<screenWidth, screenHeight>>

Next == jump \/ PlayAgain \/ gameLoop

Spec == Init /\ [][Next]_vars

\* ------------------------------------------- checkCollision on drawn inputs
\* bird positions around every threshold of checkCollision (pixels)
ProbeY == {-1, 0, 49, 50, 220, 221, 270, 271}
\* pipe positions around the two horizontal thresholds of lines 108-109 (pixels)
ProbeX == {40, 41, 129, 130}

ProbePipes ==
    {[x |-> x * Unit, topHeight |-> MIN_HEIGHT, bottomY |-> MIN_HEIGHT + PIPE_GAP,
      scored |-> FALSE] : x \in ProbeX}

ProbeLists ==
    {<<>>} \cup {<<p>> : p \in ProbePipes}
           \cup {<<p, q>> : p \in ProbePipes, q \in ProbePipes}

\* a game in progress with the bird and the pipes drawn from the probes; the
\* velocity is 0, so the bird the first frame tests is the drawn one
InitCollision ==
    /\ screenWidth \in {w * Unit : w \in Widths}
    /\ screenHeight \in {h * Unit : h \in Heights}
    /\ gameState = "playing"
    /\ score = 0
    /\ highScore = 0
    /\ bird \in {[x |-> BIRD_X, y |-> y * Unit, velocityY |-> 0] : y \in ProbeY}
    /\ pipes \in ProbeLists
    /\ frameCount = 1

SpecCollision == InitCollision /\ [][gameLoop]_vars

\* ------------------------------------------------- input that comes to an end
\* the player stops touching the surface JumpWindow frames into a game
JumpWindow == 30

\* a touch, as long as the player still gives input
Touch ==
    /\ gameState = "playing" => frameCount < JumpWindow
    /\ jump

NextFall == Touch \/ PlayAgain \/ gameLoop

\* frames keep being delivered while a game is played: the effect of lines
\* 172-186 requests the next animation frame after every render in playing
SpecFall == Init /\ [][NextFall]_vars /\ WF_vars(gameLoop)

\* ------------------------------------------------------ other window sizes
\* the state after construction in a window of w by h pixels, lines 34-50
InitWindow(w, h) ==
    /\ screenWidth = w * Unit
    /\ screenHeight = h * Unit
    /\ gameState = "waiting"
    /\ score = 0
    /\ highScore = 0
    /\ bird = InitialBird(screenHeight)
    /\ pipes = <<>>
    /\ frameCount = 0

\* a window wide enough for two pipes at once, its width + PIPE_WIDTH a
\* multiple of GAME_SPEED (a pipe is moved to exactly -PIPE_WIDTH)
WideWidth == 243
\* the smallest window height with more than one gap position
TallHeight == 410
\* a window height below PIPE_GAP plus the margins of generatePipe
ShortHeight == 390

InitWide == \E h \in Heights : InitWindow(WideWidth, h)

SpecWide == InitWide /\ [][Next]_vars

InitTall == \E w \in Widths : InitWindow(w, TallHeight)

SpecTall == InitTall /\ [][Next]_vars

InitShort == \E w \in Widths : InitWindow(w, ShortHeight)

SpecShort == InitShort /\ [][Next]_vars

\* ------------------------------------------------------------------- claims
\* the frame the bird updater tests, and whether the step is a frame of a game
Collides == checkCollision(NewBird(bird), pipes, screenHeight)

IsFrame == gameState = "playing" /\ frameCount' = frameCount + 1

\* C1: the phase starts as waiting and changes only along waiting -> playing
\* (an activate: no frame is counted, the velocity is the impulse), playing ->
\* gameOver (a frame whose collision test is true; such a frame always ends the
\* game) and gameOver -> waiting.
C1_PhaseEdges ==
    /\ gameState = "waiting"
    /\ [][/\ gameState' # gameState =>
               \/ /\ gameState = "waiting" /\ gameState' = "playing"
                  /\ frameCount' = frameCount
                  /\ bird'.velocityY = JUMP_FORCE
               \/ /\ gameState = "playing" /\ gameState' = "gameOver"
                  /\ frameCount' = frameCount + 1
                  /\ Collides
               \/ /\ gameState = "gameOver" /\ gameState' = "waiting"
          /\ IsFrame /\ Collides => gameState' = "gameOver"]_vars

\* a second game is being played after a first one that scored
C1_Witness == gameState = "playing" /\ highScore > 0 /\ frameCount > 0

\* C2 as stated: on a non-colliding frame the velocity gains GRAVITY and the
\* position gains the NEW velocity.
C2_SemiImplicit ==
    [][IsFrame /\ gameState' = "playing" =>
          /\ bird'.velocityY = bird.velocityY + GRAVITY
          /\ bird'.y = bird.y + bird'.velocityY]_vars

RECURSIVE ImpulseSum(_)
\* sum over k = 0 .. n-1 of (JUMP_FORCE + k * GRAVITY)
ImpulseSum(n) == IF n = 0 THEN 0 ELSE ImpulseSum(n - 1) + JUMP_FORCE + (n - 1) * GRAVITY

\* the velocity after n frames with no activate since the one before frame 1
FreeFall == gameState = "playing" /\ bird.velocityY = JUMP_FORCE + frameCount * GRAVITY

\* C2 (amended): on a non-colliding frame the velocity gains GRAVITY and the
\* position gains the OLD velocity; after one activate and n non-colliding
\* frames the position is position_0 + sum over k = 0..n-1 of (impulse + k*GRAVITY).
C2_ExplicitEuler ==
    /\ [][IsFrame /\ gameState' = "playing" =>
             /\ bird'.velocityY = bird.velocityY + GRAVITY
             /\ bird'.y = bird.y + bird.velocityY]_vars
    /\ [](FreeFall => bird.y = screenHeight \div 2 + ImpulseSum(frameCount))

\* twenty frames of free fall after the activate
C2_Witness == FreeFall /\ frameCount = 20

\* C3: in every game-over state the high score is at least the score.
C3_BestCoversScore == gameState = "gameOver" => highScore >= score

\* C4: a colliding frame leaves the pipes and the score alone.
C4_CollisionFreezesPipes ==
    [][IsFrame /\ Collides => pipes' = pipes /\ score' = score]_vars

\* C5: the colliding frame keeps the bird where it was and ends the game, and
\* no step taken while the game is over and stays over moves the bird.
C5_DeathKeepsBird ==
    [][/\ IsFrame /\ Collides => bird' = bird /\ gameState' = "gameOver"
       /\ gameState = "gameOver" /\ gameState' = "gameOver" => bird' = bird]_vars

\* the game ended on a frame after the bird had moved
C5_Witness ==
    /\ gameState = "gameOver"
    /\ bird.y # screenHeight \div 2
    /\ frameCount > 10

\* C6 as stated: an activate sets the velocity to JUMP_FORCE in every phase.
C6_ImpulseAlways == [][jump => bird'.velocityY = JUMP_FORCE]_vars

\* C6 (amended): an activate sets the velocity to JUMP_FORCE in waiting (and
\* starts the game) and in playing (and changes nothing else); in gameOver it
\* resets the game, which leaves the velocity 0.
C6_ImpulseUnlessOver ==
    [][jump =>
          /\ gameState = "waiting" =>
                bird'.velocityY = JUMP_FORCE /\ gameState' = "playing"
          /\ gameState = "playing" =>
                bird'.velocityY = JUMP_FORCE /\ gameState' = "playing"
          /\ gameState = "gameOver" =>
                bird'.velocityY = 0 /\ gameState' = "waiting"]_vars

\* an activate taken in mid-game: the impulse replaced a downward velocity
C6_Witness ==
    /\ gameState = "playing"
    /\ frameCount > 20
    /\ bird.velocityY = JUMP_FORCE

\* C7: any step out of a game-over state is the full reset, and it keeps the
\* high score.
C7_FullReset ==
    [][gameState = "gameOver" =>
          /\ gameState' = "waiting"
          /\ score' = 0
          /\ frameCount' = 0
          /\ pipes' = <<>>
          /\ bird' = InitialBird(screenHeight)
          /\ highScore' = highScore]_vars

\* reset after a game that scored: only the high score is left of it
C7_Witness ==
    /\ gameState = "waiting"
    /\ highScore = 1
    /\ score = 0
    /\ frameCount = 0
    /\ pipes = <<>>

\* the pipe of the next state that pipe j of this state becomes on a frame
Successor(j) == {i \in 1..Len(pipes') : pipes'[i].x = pipes[j].x - GAME_SPEED}

\* the pipes of the next state whose flag was set by this frame
Flipped ==
    {i \in 1..Len(pipes') :
        /\ pipes'[i].scored
        /\ \A j \in 1..Len(pipes) : i \in Successor(j) => ~pipes[j].scored}

\* C8: a scored flag is never cleared; on a frame the score grows by the number
\* of flags the frame sets, which is at most one; a reset sets the score to 0;
\* no other step changes the score or a flag.
C8_ScoredOnce ==
    [][IF IsFrame
       THEN /\ \A j \in 1..Len(pipes) : \A i \in Successor(j) :
                   pipes[j].scored => pipes'[i].scored
            /\ Cardinality(Flipped) <= 1
            /\ score' = score + Cardinality(Flipped)
       ELSE IF gameState = "gameOver"
       THEN score' = 0
       ELSE score' = score /\ pipes' = pipes]_vars

\* the flag set at frame 131 is still set, and the score still 1, frames later
C8_Witness ==
    /\ gameState = "playing"
    /\ frameCount = 140
    /\ Len(pipes) = 1
    /\ pipes[1].scored
    /\ score = 1

\* C9: no step makes the high score smaller.
C9_HighScoreMonotone == [][highScore' >= highScore]_vars

\* a later game ended with a smaller score than the high score
C9_Witness ==
    /\ gameState = "gameOver"
    /\ score = 0
    /\ highScore = 1

\* the three clauses of the collision predicate
HitsGround(b, h) == b.y > h - GROUND_HEIGHT - BIRD_SIZE

HitsCeiling(b) == b.y < 0

HitsPipe(b, p) ==
    /\ b.x + BIRD_SIZE > p.x
    /\ b.x < p.x + PIPE_WIDTH
    /\ (b.y < p.topHeight \/ b.y + BIRD_SIZE > p.bottomY)

\* C10: checkCollision is true iff the bird is past the ground line, above the
\* ceiling or hits some pipe; the ground and ceiling answers are the same for
\* every pipe list; and a frame ends the game exactly when the predicate is
\* true of the bird it tests.
C10_CollisionIff ==
    /\ [](LET b == NewBird(bird) IN
            /\ checkCollision(b, pipes, screenHeight) <=>
                  \/ HitsGround(b, screenHeight)
                  \/ HitsCeiling(b)
                  \/ \E i \in 1..Len(pipes) : HitsPipe(b, pipes[i])
            /\ \A ps \in ProbeLists :
                  HitsGround(b, screenHeight) \/ HitsCeiling(b)
                     => checkCollision(b, ps, screenHeight))
    /\ [][IsFrame =>
             (gameState' = "gameOver" <=>
                 LET b == NewBird(bird) IN
                    \/ HitsGround(b, screenHeight)
                    \/ HitsCeiling(b)
                    \/ \E i \in 1..Len(pipes) : HitsPipe(b, pipes[i]))]_vars

\* the game ended on a bird that only the second pipe of the list hits
C10_Witness ==
    /\ gameState = "gameOver"
    /\ frameCount = 2
    /\ Len(pipes) = 2
    /\ bird.y = 49 * Unit
    /\ pipes[1].x = 40 * Unit - GAME_SPEED
    /\ pipes[2].x = 129 * Unit - GAME_SPEED


\* the pipes of the next state that are no pipe of this state moved by a frame
Spawned == {i \in 1..Len(pipes') : \A j \in 1..Len(pipes) : i \notin Successor(j)}

\* C11: a frame whose frame count (after the increment of line 126) is a
\* multiple of SPAWN_INTERVAL appends exactly one pipe, as the last one, at
\* x = screenWidth and not scored; any other frame appends none; a step that
\* is no frame leaves the pipes as they are or empties them.
C11_SpawnCadence ==
    [][IF IsFrame
       THEN IF frameCount' % SPAWN_INTERVAL = 0
            THEN /\ Len(pipes') > 0
                 /\ Spawned = {Len(pipes')}
                 /\ pipes'[Len(pipes')].x = screenWidth
                 /\ ~pipes'[Len(pipes')].scored
            ELSE Spawned = {}
       ELSE pipes' = pipes \/ pipes' = <<>>]_vars

\* the second pipe of a game has just been appended behind the first
C11_Witness ==
    /\ frameCount = 2 * SPAWN_INTERVAL
    /\ Len(pipes) = 2
    /\ pipes[2].x = screenWidth
    /\ ~pipes[2].scored


\* the frames the pipe spawned at frame SPAWN_INTERVAL * k has been moved by
Age(k) == frameCount - SPAWN_INTERVAL * k

\* where the pipes spawned so far in this game are, or would be if kept
SpawnedXs ==
    {screenWidth - GAME_SPEED * Age(k) : k \in 1..(frameCount \div SPAWN_INTERVAL)}

PipeXs == {pipes[i].x : i \in 1..Len(pipes)}

\* the frame count at which the first pipe has been moved (screenWidth +
\* PIPE_WIDTH) / GAME_SPEED times, when that is a whole number
EdgeFrame == SPAWN_INTERVAL + (screenWidth + PIPE_WIDTH) \div GAME_SPEED

AtEdge ==
    /\ (screenWidth + PIPE_WIDTH) % GAME_SPEED = 0
    /\ frameCount = EdgeFrame

\* C12 as stated: after exactly (screenWidth + PIPE_WIDTH) / GAME_SPEED
\* advancing frames the pipe is still in the sequence, at x = -PIPE_WIDTH.
C12_PresentAtEdge == AtEdge => -PIPE_WIDTH \in PipeXs

\* C12 (amended): a pipe spawned at x = screenWidth is in the sequence after n
\* advancing frames, at x = screenWidth - n * GAME_SPEED, exactly while that
\* position is greater than -PIPE_WIDTH; the frame that moves it to
\* -PIPE_WIDTH or beyond removes it.
C12_RemovedAtEdge == PipeXs = {x \in SpawnedXs : x > -PIPE_WIDTH}

\* the frame that moved the first pipe to exactly -PIPE_WIDTH has removed it
C12_Witness ==
    /\ AtEdge
    /\ gameState = "playing"
    /\ PipeXs = {screenWidth - GAME_SPEED}


\* C13: no pipe of the sequence is further left than -PIPE_WIDTH.
C13_NoPipeBeyondEdge == \A i \in 1..Len(pipes) : pipes[i].x >= -PIPE_WIDTH

\* the only pipe of the game has been scored and then removed
C13_Witness ==
    /\ gameState = "playing"
    /\ score = 1
    /\ pipes = <<>>
    /\ frameCount > SPAWN_INTERVAL


\* maxHeight of generatePipe for the window of this run
MaxTop == screenHeight - PIPE_GAP - MIN_HEIGHT - GROUND_HEIGHT

\* C14: a pipe is only ever generated from a proper range: whenever the
\* sequence holds a pipe, MIN_HEIGHT <= MaxTop and the pipe's topHeight lies
\* in [MIN_HEIGHT, MaxTop] (a window too low for that is rejected before any
\* pipe is generated).
C14_NoDegenerateRange ==
    \A i \in 1..Len(pipes) :
        /\ MIN_HEIGHT <= MaxTop
        /\ MIN_HEIGHT <= pipes[i].topHeight
        /\ pipes[i].topHeight <= MaxTop


\* C15: a frame delivered while waiting or while the game is over changes
\* nothing.
C15_IdleFrameNoOp == [][gameState # "playing" /\ gameLoop => UNCHANGED vars]_vars

\* a game ended after its first pipe was spawned: frames delivered here are idle
C15_Witness ==
    /\ gameState = "gameOver"
    /\ frameCount > SPAWN_INTERVAL
    /\ pipes # <<>>
    /\ highScore = 0

\* C16: an activate while playing sets the velocity to JUMP_FORCE and changes
\* nothing else (phase, position, pipes, score, high score, frame count); the
\* next frame that does not collide adds GRAVITY to the velocity it finds, the
\* impulse included.
C16_ImpulseOnly ==
    [][/\ gameState = "playing" /\ jump =>
             /\ bird' = [bird EXCEPT !.velocityY = JUMP_FORCE]
             /\ UNCHANGED <<gameState, score, highScore, pipes, frameCount>>
       /\ IsFrame /\ ~Collides =>
             bird'.velocityY = bird.velocityY + GRAVITY]_vars

\* the frame after an activate taken in mid-game, next to a pipe
C16_Witness ==
    /\ gameState = "playing"
    /\ pipes # <<>>
    /\ bird.velocityY = JUMP_FORCE + GRAVITY


\* C17: every pipe has bottomY = topHeight + PIPE_GAP and topHeight in
\* [MIN_HEIGHT, MaxTop], so that its gap ends above the ground line.
C17_GapInRange ==
    \A i \in 1..Len(pipes) :
        /\ pipes[i].bottomY = pipes[i].topHeight + PIPE_GAP
        /\ pipes[i].topHeight \in MIN_HEIGHT..MaxTop
        /\ pipes[i].bottomY <= screenHeight - GROUND_HEIGHT

\* the second half of C17: a frame changes only the x and the flag of a pipe
C17_GapFixed ==
    [][IsFrame =>
          \A j \in 1..Len(pipes) : \A i \in Successor(j) :
              /\ pipes'[i].topHeight = pipes[j].topHeight
              /\ pipes'[i].bottomY = pipes[j].bottomY]_vars


\* C18: the pipes are in creation order, each exactly SPAWN_INTERVAL *
\* GAME_SPEED to the right of the one before it; the length of the sequence
\* is bounded in terms of screenWidth alone; a frame keeps the order of the
\* pipes it keeps and removes pipes only from the front.
C18_CreationOrder ==
    /\ [](/\ \A i \in 1..(Len(pipes) - 1) :
               pipes[i + 1].x = pipes[i].x + SPAWN_INTERVAL * GAME_SPEED
          /\ (Len(pipes) - 1) * SPAWN_INTERVAL * GAME_SPEED < screenWidth + PIPE_WIDTH)
    /\ [][IsFrame =>
             /\ \A j \in 1..Len(pipes) : \A k \in 1..Len(pipes) :
                   k < j /\ Successor(j) = {} => Successor(k) = {}
             /\ \A j \in 1..Len(pipes) : \A k \in 1..Len(pipes) :
                   \A i \in Successor(j) : \A l \in Successor(k) :
                      k < j => l < i]_vars

\* two pipes at once: the older one, scored, in front of the newer one
C18_Witness ==
    /\ Len(pipes) = 2
    /\ pipes[1].scored
    /\ ~pipes[2].scored
    /\ pipes[1].x < 0

\* C19: a pipe is flagged exactly when its trailing edge is behind the bird;
\* the score is the number of pipes spawned in this game whose trailing edge
\* is behind the bird, removed ones included; a frame removes only flagged
\* pipes.
C19_FlagIffPassed ==
    /\ [](/\ \A i \in 1..Len(pipes) :
               pipes[i].scored <=> pipes[i].x + PIPE_WIDTH < bird.x
          /\ score = Cardinality({x \in SpawnedXs : x + PIPE_WIDTH < bird.x}))
    /\ [][IsFrame =>
             \A j \in 1..Len(pipes) : Successor(j) = {} => pipes[j].scored]_vars

\* the first pipe was scored and removed; the second is not yet passed
C19_Witness ==
    /\ gameState = "playing"
    /\ score = 1
    /\ Len(pipes) = 1
    /\ ~pipes[1].scored


\* C20: with frames kept coming and the touches of a game coming to an end,
\* every game that is being played is eventually over.
C20_EventuallyOver == (gameState = "playing") ~> (gameState = "gameOver")

\* a game ended by a long fall after the last touch
C20_Witness ==
    /\ gameState = "gameOver"
    /\ frameCount > JumpWindow
    /\ bird.velocityY >= 20 * GRAVITY

====
